---- MODULE Spec2Model ----
(***************************************************************************)
(* Model of the location resolver of src/content.js: the TTL cache         *)
(* (locationCache), the usage aggregator (locationStats), the single-      *)
(* flight map (pendingLocationRequests) and the rate-limited dispatch      *)
(* queue (requestQueue, processRequestQueue, makeLocationRequest).         *)
(*                                                                         *)
(* Time.  JavaScript is single threaded: every action below is one macro-  *)
(* task (an inbound call, a message event or a timer callback) together    *)
(* with all the promise continuations (microtasks) it triggers, run up to  *)
(* the next suspension point.  The clock `now` counts ticks of 100 ms      *)
(* (every duration of the source is a multiple of 100 ms; 30 days in ms    *)
(* does not fit TLC's 32-bit integers).  Date.now() is `now` ticks,        *)
(* Math.floor(Date.now() / 1000) is now \div 10.  A timer fires at its     *)
(* deadline, and timers fire in deadline order.                            *)
(***************************************************************************)
EXTENDS Integers, Sequences, FiniteSets, TLC

\* ------------------------------------------------------------------ bounds
\* Number of distinct screen names that callers ask for.
NumKeys == 3
\* Number of distinct non-null locations the remote side can answer.
NumLocations == 1
\* Total number of tasks (promises) getLocation may create in one run.
MaxTasks == 3
\* Callers that may wait on one pending promise in addition to its owner.
MaxWaiters == 1
\* Total number of __rateLimitInfo messages in one run; it also caps
\* consecutiveRateLimits, which the source lets grow without bound.
MaxSignals == 2
\* Number of tasks created in a run of the specification with fairness.
LiveTasks == 2
\* The source's MAX_QUEUE_SIZE is 50 (src/content.js:12); the model uses a
\* smaller capacity so that a full queue is reached with NumKeys names.
MAX_QUEUE_SIZE == 1
\* The reset times a throttling remote side reports (resetTime of
\* __rateLimitInfo), in seconds ahead of the current time.
ApiResetSoon == 60
ApiResetAhead == 900
\* Process start, in ticks since the epoch of the model's clock.
StartTime == 1000
\* Number of tasks created in a run of the specifications with durable storage.
StoreTasks == 2
\* Number of page reloads (a new content script over the same storage).
MaxRestarts == 1
\* Number of distinct screen names asked for in those specifications.
StoreKeys == 2
\* The values chrome.storage.local.getBytesInUse answers with: 15 % and 90 %
\* of the quota.
BytesLow == 1572864
BytesHigh == 9437184

\* ------------------------------------------------------- program constants
CACHE_EXPIRY_DAYS == 30
NULL_CACHE_EXPIRY_DAYS == 1
CACHE_SAVE_INTERVAL == 5000 \div 100
MIN_REQUEST_INTERVAL == 3500 \div 100
MAX_CONCURRENT_REQUESTS == 1
BASE_BACKOFF_MINUTES == 5
REQUEST_TIMEOUT == 10000 \div 100
\* setTimeout(processRequestQueue, 200) after every request
DRAIN_COOLDOWN == 200 \div 100
\* Math.min(waitTime, 60000) of the rate-limited re-check
RECHECK_CAP == 60000 \div 100
STORAGE_QUOTA_BYTES == 10 * 1024 * 1024
STORAGE_LOG_THRESHOLD == 90
\* getBytesInUse rejects: the usage cannot be read
Unreadable == 0 - 1
\* The two callers of saveCache: the debounce timer of saveCacheEntry and the
\* setInterval of init
SaveSlots == {"debounce", "periodic"}

AllKeys == <<"alice", "bob", "carol", "dave", "erin">>
Keys == {AllKeys[i] : i \in 1..NumKeys}
AllLocations == <<"France", "Japan", "Peru">>
Locations == {AllLocations[i] : i \in 1..NumLocations}
\* JavaScript null / undefined / "no such map entry"
Null == "null"
TaskIds == 1..MaxTasks

Max(a, b) == IF a >= b THEN a ELSE b
\* Mutant of Min: the first argument whatever the second is.
Min_First(a, b) == a
Min(a, b) == IF a <= b THEN a ELSE b
RECURSIVE Pow2(_)
Pow2(n) == IF n = 0 THEN 1 ELSE 2 * Pow2(n - 1)

VARIABLES
  now,                      \* Date.now(), in ticks
  locationCache,            \* Map<username, {location, expiry, cachedAt}>
  locationStats,            \* Map<location, Set<username>>
  requestQueue,             \* array of {screenName, resolve, reject}
  isProcessingQueue,
  lastRequestTime,
  activeRequests,
  rateLimitResetTime,       \* seconds
  consecutiveRateLimits,
  pendingLocationRequests,  \* Map<username, Promise>: promise id, 0 if none
  promises,                 \* task id -> [screenName, state] of locationPromise
  waiters,                  \* task id -> callers suspended at content.js:502
  nextId,                   \* number of promises created so far + 1
  drainPc,                  \* where processRequestQueue is suspended
  inflight,                 \* the task the drain loop awaits (content.js:399)
  remote,                   \* ids of __fetchLocation messages not yet answered
  timeoutTimers,            \* setTimeout of makeLocationRequest (content.js:455)
  pqTimers,                 \* deadlines of setTimeout(processRequestQueue, ..)
  saveCacheTimeout,         \* saveCache.timeout: deadline, or 0 for null
  contextValid,             \* isExtensionContextValid()
  signals,                  \* number of __rateLimitInfo messages received
  extensionEnabled,         \* let extensionEnabled (content.js:47)
  queueCapacity,            \* the capacity the queue-full test compares with
  debounceTimers,           \* deadlines of the pending debounce setTimeouts
  saves,                    \* caller -> where its saveCache() is suspended
  storage,                  \* chrome.storage.local: CACHE_KEY and STATS_KEY
  lastLoggedStoragePercent, \* let lastLoggedStoragePercent (content.js:59)
  restarts                  \* number of page reloads so far

vars == <<now, locationCache, locationStats, requestQueue, isProcessingQueue,
          lastRequestTime, activeRequests, rateLimitResetTime,
          consecutiveRateLimits, pendingLocationRequests, promises, waiters,
          nextId, drainPc, inflight, remote, timeoutTimers, pqTimers,
          saveCacheTimeout, contextValid, signals, extensionEnabled,
          queueCapacity, debounceTimers, saves, storage,
          lastLoggedStoragePercent, restarts>>

NoEntry == [location |-> Null, expiry |-> 0, cachedAt |-> 0]
NoTask == [screenName |-> Null, id |-> 0]
NoPromise == [screenName |-> Null, state |-> "none", value |-> Null]
NoRet == [kind |-> "none", screenName |-> Null, location |-> Null]
\* An empty cacheObj / statsObj, and the storage before the first write
NoCacheObj == [k \in Keys |-> NoEntry]
NoStatsObj == [l \in Locations |-> 0]
EmptyStorage == [cache |-> NoCacheObj, stats |-> NoStatsObj]
\* No saveCache() of this caller is running
NoSave ==
  [pc |-> "idle", cacheObj |-> NoCacheObj, statsObj |-> NoStatsObj,
   behind |-> FALSE]

\* The mutable program state as one record, so that the sequential code of a
\* handler is a composition of record -> record operators.  Three more fields
\* collect what a handler hands to its environment and are not program state:
\* ret (what a getLocation call returns or does), settled (the promise
\* settlements the handler performed, with what the woken callers return) and
\* sent (the __fetchLocation messages it posted).
Cur ==
  [locationCache |-> locationCache, locationStats |-> locationStats,
   requestQueue |-> requestQueue, isProcessingQueue |-> isProcessingQueue,
   lastRequestTime |-> lastRequestTime, activeRequests |-> activeRequests,
   rateLimitResetTime |-> rateLimitResetTime,
   consecutiveRateLimits |-> consecutiveRateLimits,
   pendingLocationRequests |-> pendingLocationRequests,
   promises |-> promises, waiters |-> waiters, nextId |-> nextId,
   drainPc |-> drainPc, inflight |-> inflight, remote |-> remote,
   timeoutTimers |-> timeoutTimers, pqTimers |-> pqTimers,
   saveCacheTimeout |-> saveCacheTimeout, contextValid |-> contextValid,
   signals |-> signals, extensionEnabled |-> extensionEnabled,
   queueCapacity |-> queueCapacity, debounceTimers |-> debounceTimers,
   saves |-> saves, storage |-> storage,
   lastLoggedStoragePercent |-> lastLoggedStoragePercent,
   restarts |-> restarts,
   ret |-> NoRet, settled |-> {}, sent |-> {}, warned |-> {}]

Commit(m) ==
  /\ locationCache' = m.locationCache
  /\ locationStats' = m.locationStats
  /\ requestQueue' = m.requestQueue
  /\ isProcessingQueue' = m.isProcessingQueue
  /\ lastRequestTime' = m.lastRequestTime
  /\ activeRequests' = m.activeRequests
  /\ rateLimitResetTime' = m.rateLimitResetTime
  /\ consecutiveRateLimits' = m.consecutiveRateLimits
  /\ pendingLocationRequests' = m.pendingLocationRequests
  /\ promises' = m.promises
  /\ waiters' = m.waiters
  /\ nextId' = m.nextId
  /\ drainPc' = m.drainPc
  /\ inflight' = m.inflight
  /\ remote' = m.remote
  /\ timeoutTimers' = m.timeoutTimers
  /\ pqTimers' = m.pqTimers
  /\ saveCacheTimeout' = m.saveCacheTimeout
  /\ contextValid' = m.contextValid
  /\ signals' = m.signals
  /\ extensionEnabled' = m.extensionEnabled
  /\ queueCapacity' = m.queueCapacity
  /\ debounceTimers' = m.debounceTimers
  /\ saves' = m.saves
  /\ storage' = m.storage
  /\ lastLoggedStoragePercent' = m.lastLoggedStoragePercent
  /\ restarts' = m.restarts


\* ------------------------------------------------------------ pure helpers
\* Mutant of calculateExpiry: one lifetime for every value.
calculateExpiry_OneTtl(location, t) == t + (CACHE_EXPIRY_DAYS * 24 * 60 * 60 * 10)

\* calculateExpiry (content.js:145): now + days * 24 * 60 * 60 * 1000 ms
calculateExpiry(location, t) ==
  LET days == IF location = Null THEN NULL_CACHE_EXPIRY_DAYS
              ELSE CACHE_EXPIRY_DAYS
  IN  t + (days * 24 * 60 * 60 * 10)

\* Mutant of CacheFresh: an entry is still served at its expiry instant.
CacheFresh_Inclusive(entry, t) == entry.expiry # 0 /\ entry.expiry >= t

\* Mutant of CacheFresh: no entry is ever served.
CacheFresh_Never(entry, t) == FALSE

\* cached.expiry && cached.expiry > now (content.js:487, 507)
CacheFresh(entry, t) == entry.expiry # 0 /\ entry.expiry > t

\* locationCache.has(k)
CacheHas(m, k) == m.locationCache[k] # NoEntry

\* isRateLimited (content.js:337)
isRateLimited(m, t) ==
  IF m.rateLimitResetTime = 0 THEN FALSE
  ELSE (t \div 10) < m.rateLimitResetTime

\* Mutant of resetRateLimit: the counter survives the reset.
resetRateLimit_KeepsCounter(m) == [m EXCEPT !.rateLimitResetTime = 0]

\* resetRateLimit (content.js:343)
resetRateLimit(m) ==
  [m EXCEPT !.rateLimitResetTime = 0, !.consecutiveRateLimits = 0]

\* updateStats (content.js:265)
updateStats(m, username, location) ==
  IF location = Null THEN m
  ELSE [m EXCEPT !.locationStats[location] = @ \cup {username}]

\* Mutant of saveCacheEntry: every mutation arms a debounce timer.
saveCacheEntry_AlwaysArms(m, username, location, t) ==
  IF ~m.contextValid THEN m
  ELSE
    LET m1 == [m EXCEPT !.locationCache[username] =
                 [location |-> location,
                  expiry |-> calculateExpiry(location, t),
                  cachedAt |-> t]]
        m2 == IF location # Null THEN updateStats(m1, username, location)
              ELSE m1
    IN  [m2 EXCEPT !.saveCacheTimeout = t + CACHE_SAVE_INTERVAL,
                   !.debounceTimers = @ \cup {t + CACHE_SAVE_INTERVAL}]

\* saveCacheEntry (content.js:282): no-op when the extension context is gone;
\* otherwise overwrite the entry, update the aggregator, arm the debounce.
saveCacheEntry(m, username, location, t) ==
  IF ~m.contextValid THEN m
  ELSE
    LET m1 == [m EXCEPT !.locationCache[username] =
                 [location |-> location,
                  expiry |-> calculateExpiry(location, t),
                  cachedAt |-> t]]
        m2 == IF location # Null THEN updateStats(m1, username, location)
              ELSE m1
    IN  IF m2.saveCacheTimeout = 0
        THEN [m2 EXCEPT !.saveCacheTimeout = t + CACHE_SAVE_INTERVAL,
                        !.debounceTimers = @ \cup {t + CACHE_SAVE_INTERVAL}]
        ELSE m2

\* ------------------------------------------------- settling a locationPromise
RateLimitedError == "Error: Rate limited"

\* Mutant of WaiterResult: the waiter returns what the promise resolved with.
WaiterResult_Raw(m, k, location, t) == location

\* What a caller suspended at content.js:502 returns once the promise it
\* awaited resolved with `location` (content.js:504-515).
WaiterResult(m, k, location, t) ==
  IF CacheHas(m, k) /\ CacheFresh(m.locationCache[k], t)
  THEN m.locationCache[k].location
  ELSE location

\* The resolve wrapper of a queued task (content.js:530-533) and the callers
\* it wakes: the owner (content.js:543-544) and the waiters.  Nothing refers
\* to a resolved promise any more: its record is dropped.
TaskResolve(m, task, location, how, t) ==
  LET k == task.screenName
      n == m.waiters[task.id]
      w == WaiterResult(m, k, location, t)
  IN  [m EXCEPT
        !.pendingLocationRequests[k] = 0,
        !.promises[task.id] = NoPromise,
        !.waiters[task.id] = 0,
        !.settled = @ \cup {[id |-> task.id, screenName |-> k,
                             how |-> how, state |-> "resolved",
                             owner |-> location, waiter |-> w,
                             waiting |-> n]}]

\* The reject wrapper of a queued task (content.js:534-537): the owner and
\* every waiter see the rejection (their await throws).
TaskReject(m, task, t) ==
  LET k == task.screenName
      n == m.waiters[task.id]
  IN  [m EXCEPT
        !.pendingLocationRequests[k] = 0,
        !.promises[task.id].state = "rejected",
        !.promises[task.id].value = RateLimitedError,
        !.waiters[task.id] = 0,
        !.settled = @ \cup {[id |-> task.id, screenName |-> k,
                             how |-> "ratelimited", state |-> "rejected",
                             owner |-> RateLimitedError,
                             waiter |-> RateLimitedError,
                             waiting |-> n]}]

\* while (requestQueue.length > 0) requestQueue.shift().reject(...)
\* (content.js:365-367)
RECURSIVE RejectQueued(_, _)
RejectQueued(m, t) ==
  IF m.requestQueue = << >> THEN m
  ELSE RejectQueued(
         TaskReject([m EXCEPT !.requestQueue = Tail(@)],
                    Head(m.requestQueue), t), t)

\* ------------------------------------------------------- the dispatch queue
\* makeLocationRequest up to its return (content.js:418-464): register the
\* response handler, post __fetchLocation, start the timeout timer.
makeLocationRequest(m, task, t) ==
  [m EXCEPT
    !.remote = @ \cup {task.id},
    !.timeoutTimers = @ \cup {[screenName |-> task.screenName,
                               id |-> task.id,
                               at |-> t + REQUEST_TIMEOUT]}]

\* Mutant of Dispatch: the loop pops the newest task.
Dispatch_Lifo(m, t) ==
  LET n == Len(m.requestQueue)
      task == m.requestQueue[n]
      m1 == [m EXCEPT
              !.requestQueue = SubSeq(@, 1, n - 1),
              !.activeRequests = @ + 1,
              !.lastRequestTime = t,
              !.inflight = task,
              !.drainPc = "request",
              !.sent = @ \cup {[id |-> task.id,
                                screenName |-> task.screenName,
                                at |-> t,
                                previous |-> m.lastRequestTime]}]
  IN  makeLocationRequest(m1, task, t)

\* content.js:393-399: pop the head task and send it.
Dispatch(m, t) ==
  LET task == Head(m.requestQueue)
      m1 == [m EXCEPT
              !.requestQueue = Tail(@),
              !.activeRequests = @ + 1,
              !.lastRequestTime = t,
              !.inflight = task,
              !.drainPc = "request",
              !.sent = @ \cup {[id |-> task.id,
                                screenName |-> task.screenName,
                                at |-> t,
                                previous |-> m.lastRequestTime]}]
  IN  makeLocationRequest(m1, task, t)

\* One pass of the while loop of processRequestQueue (content.js:384-414), up
\* to its next await or to its exit.
DrainLoop(m, t) ==
  IF m.requestQueue # << >> /\ m.activeRequests < MAX_CONCURRENT_REQUESTS
  THEN IF t - m.lastRequestTime < MIN_REQUEST_INTERVAL
       THEN [m EXCEPT !.drainPc = "pacing"]
       ELSE Dispatch(m, t)
  ELSE [m EXCEPT !.isProcessingQueue = FALSE, !.drainPc = "idle"]

\* Mutant of PacingDeadline: the pacing timer is one tick short.
PacingDeadline_Short(m) == m.lastRequestTime + MIN_REQUEST_INTERVAL - 1

\* Deadline of the pacing timer (content.js:390): it is started at time t
\* with delay MIN_REQUEST_INTERVAL - (t - lastRequestTime).
PacingDeadline(m) == m.lastRequestTime + MIN_REQUEST_INTERVAL

\* Mutant of processRequestQueue: a call does not look at isProcessingQueue.
processRequestQueue_NoLock(m, t) ==
  IF m.requestQueue = << >> THEN m
  ELSE IF isRateLimited(m, t)
  THEN LET waitTime == (m.rateLimitResetTime - (t \div 10)) * 10
           m1 == RejectQueued(m, t)
       IN  [m1 EXCEPT !.pqTimers = @ \cup {t + Min(waitTime, RECHECK_CAP)}]
  ELSE LET m1 == IF m.rateLimitResetTime > 0 THEN resetRateLimit(m) ELSE m
       IN  DrainLoop([m1 EXCEPT !.isProcessingQueue = TRUE], t)

\* processRequestQueue from its entry to its first await (content.js:352-399)
processRequestQueue(m, t) ==
  IF m.isProcessingQueue \/ m.requestQueue = << >> THEN m
  ELSE IF isRateLimited(m, t)
  THEN LET waitTime == (m.rateLimitResetTime - (t \div 10)) * 10
           m1 == RejectQueued(m, t)
       IN  [m1 EXCEPT !.pqTimers = @ \cup {t + Min(waitTime, RECHECK_CAP)}]
  ELSE LET m1 == IF m.rateLimitResetTime > 0 THEN resetRateLimit(m) ELSE m
       IN  DrainLoop([m1 EXCEPT !.isProcessingQueue = TRUE], t)

\* Mutant of AfterRequest: the finally block does not release the slot.
AfterRequest_NoRelease(m, location, how, t) ==
  LET m1 == IF m.consecutiveRateLimits > 0
            THEN [m EXCEPT !.consecutiveRateLimits = 0] ELSE m
      m2 == TaskResolve(m1, m.inflight, location, how, t)
      m3 == [m2 EXCEPT !.pqTimers = @ \cup {t + DRAIN_COOLDOWN},
                       !.inflight = NoTask]
  IN  DrainLoop(m3, t)

\* The continuation of processRequestQueue after makeLocationRequest resolved
\* with `location` (content.js:399-412), then the loop goes on.
AfterRequest(m, location, how, t) ==
  LET m1 == IF m.consecutiveRateLimits > 0
            THEN [m EXCEPT !.consecutiveRateLimits = 0] ELSE m
      m2 == TaskResolve(m1, m.inflight, location, how, t)
      m3 == [m2 EXCEPT !.activeRequests = @ - 1,
                       !.pqTimers = @ \cup {t + DRAIN_COOLDOWN},
                       !.inflight = NoTask]
  IN  DrainLoop(m3, t)

\* Mutant of rateLimitInfo: the exponent is the incremented counter itself.
rateLimitInfo_ExtraDoubling(m, apiResetTime, t) ==
  LET n == m.consecutiveRateLimits + 1
      baseWaitMinutes == BASE_BACKOFF_MINUTES * Pow2(n)
      exponentialWaitSeconds == baseWaitMinutes * 60
      exponentialResetTime == (t \div 10) + exponentialWaitSeconds
  IN  [m EXCEPT !.consecutiveRateLimits = n,
                !.rateLimitResetTime = Max(apiResetTime, exponentialResetTime)]

\* The __rateLimitInfo listener (content.js:318-334)
rateLimitInfo(m, apiResetTime, t) ==
  LET n == m.consecutiveRateLimits + 1
      baseWaitMinutes == BASE_BACKOFF_MINUTES * Pow2(n - 1)
      exponentialWaitSeconds == baseWaitMinutes * 60
      exponentialResetTime == (t \div 10) + exponentialWaitSeconds
  IN  [m EXCEPT !.consecutiveRateLimits = n,
                !.rateLimitResetTime = Max(apiResetTime, exponentialResetTime)]

\* Mutant of locationResponse: the answer is cached whatever its flag says.
locationResponse_CacheThrottled(m, location, rateLimited, t) ==
  AfterRequest(saveCacheEntry(m, m.inflight.screenName, location, t),
               location, "response", t)

\* The __locationResponse handler of the request in flight
\* (content.js:423-444) and the continuations its resolve() wakes.
locationResponse(m, location, rateLimited, t) ==
  LET k == m.inflight.screenName
      m1 == IF ~rateLimited THEN saveCacheEntry(m, k, location, t) ELSE m
  IN  AfterRequest(m1, location, "response", t)

\* Mutant of requestTimeout: the callback unregisters the key and resolves
\* nothing.
requestTimeout_NoResolve(m, tm, t) ==
  [m EXCEPT !.timeoutTimers = @ \ {tm},
            !.pendingLocationRequests[tm.screenName] = 0]

\* The timeout callback of makeLocationRequest (content.js:455-462) for
\* timer tm: it always unregisters the key; resolve(null) settles the request
\* only if its response has not arrived.
requestTimeout(m, tm, t) ==
  LET m1 == [m EXCEPT !.timeoutTimers = @ \ {tm},
                      !.pendingLocationRequests[tm.screenName] = 0]
  IN  IF m1.inflight.id = tm.id
      THEN AfterRequest(m1, Null, "timeout", t)
      ELSE m1

\* Ids of the unsettled promises created for key k
PendingIds(m, k) ==
  {i \in TaskIds : m.promises[i].screenName = k
                   /\ m.promises[i].state = "pending"}

\* Mutants of QueueFull: the test is off by one; there is no test.
QueueFull_OffByOne(m) == Len(m.requestQueue) > m.queueCapacity
QueueFull_Never(m) == FALSE

\* The queue-full test of getLocation (content.js:519)
QueueFull(m) == Len(m.requestQueue) >= m.queueCapacity

\* getLocation from its call to its first await or its return
\* (content.js:481-545).  m.ret records what the call did.
getLocation(m, k, t) ==
  LET fresh == CacheHas(m, k) /\ CacheFresh(m.locationCache[k], t)
      \* content.js:494-496: an expired entry is removed
      m1 == IF CacheHas(m, k) /\ ~fresh
            THEN [m EXCEPT !.locationCache[k] = NoEntry] ELSE m
      p == m1.pendingLocationRequests[k]
      Ret(kind, location) ==
        [kind |-> kind, screenName |-> k, location |-> location]
  IN  IF fresh
      THEN [m EXCEPT !.ret = Ret("hit", m.locationCache[k].location)]
      ELSE IF p # 0
      THEN \* content.js:500-516: await the registered promise
           IF m1.promises[p].state = "pending"
           THEN [m1 EXCEPT !.waiters[p] = @ + 1, !.ret = Ret("wait", Null)]
           ELSE IF m1.promises[p].state = "rejected"
           THEN [m1 EXCEPT !.ret = Ret("throw", m1.promises[p].value)]
           ELSE [m1 EXCEPT !.ret =
                   Ret("waited", WaiterResult(m1, k, m1.promises[p].value, t))]
      ELSE IF QueueFull(m1)
      THEN [m1 EXCEPT !.ret = Ret("full", Null)]
      ELSE \* content.js:527-543: create the promise, enqueue, start the
           \* drain, then register the promise
           LET id == m1.nextId
               task == [screenName |-> k, id |-> id]
               m2 == [m1 EXCEPT
                       !.nextId = @ + 1,
                       !.promises[id] = [screenName |-> k,
                                         state |-> "pending",
                                         value |-> Null],
                       !.requestQueue = Append(@, task)]
               m3 == processRequestQueue(m2, t)
               m4 == [m3 EXCEPT !.pendingLocationRequests[k] = id]
           IN  IF m4.promises[id].state = "rejected"
               THEN [m4 EXCEPT !.ret = Ret("rejected", RateLimitedError)]
               ELSE [m4 EXCEPT !.ret = Ret("queued", Null)]

\* ------------------------------------------------------------------ timers
\* The clock stops at the timers whose callbacks settle or send a request:
\* the request timeouts and the pacing delay of the drain loop.
StopDeadlines ==
  {tm.at : tm \in timeoutTimers}
  \cup (IF drainPc = "pacing" THEN {PacingDeadline(Cur)} ELSE {})

\* Instants at which the program's answers change without a timer.
Horizon ==
  {rateLimitResetTime * 10} \cup {locationCache[k].expiry : k \in Keys}

\* The least element of a non-empty set of numbers
Least(S) == CHOOSE x \in S : \A y \in S : x <= y

\* The callback of the debounce timer of saveCacheEntry (content.js:301-304)
\* run to its end at the deadline; what it writes is not tracked.
saveCacheTimer(m) ==
  [m EXCEPT !.saveCacheTimeout = 0,
            !.debounceTimers = @ \ {m.saveCacheTimeout}]

\* The other timers run while the clock moves on to t: the debounce timer and
\* every setTimeout(processRequestQueue, ..) that is due by t, each at its own
\* deadline and in deadline order.
RECURSIVE RunDueTimers(_, _)
RunDueTimers(m, t) ==
  LET due == {d \in m.pqTimers : d <= t}
  IN  IF m.saveCacheTimeout # 0 /\ m.saveCacheTimeout <= t
      THEN RunDueTimers(saveCacheTimer(m), t)
      ELSE IF due = {} THEN m
      ELSE LET d == Least(due)
           IN  RunDueTimers(
                 processRequestQueue([m EXCEPT !.pqTimers = @ \ {d}], d), t)

\* ------------------------------------------------------------- persistence
\* Math.floor((bytesUsed / STORAGE_QUOTA_BYTES) * 100) (content.js:155, 173)
PercentUsed(bytesUsed) == (bytesUsed * 100) \div STORAGE_QUOTA_BYTES

\* Mutant of canWriteToStorage: the guard lets every write through.
canWriteToStorage_Always(m, bytesUsed) == TRUE

\* canWriteToStorage (content.js:150-162), given what getBytesInUse answers
canWriteToStorage(m, bytesUsed) ==
  /\ m.contextValid
  /\ bytesUsed # Unreadable
  /\ PercentUsed(bytesUsed) < STORAGE_LOG_THRESHOLD

\* Mutant of checkStorageUsage: every sample at or above 10 % is logged.
checkStorageUsage_NoMemory(m, bytesUsed) ==
  IF ~m.contextValid \/ bytesUsed = Unreadable THEN m
  ELSE
    LET percentUsed == PercentUsed(bytesUsed)
        logThreshold == (percentUsed \div 10) * 10
    IN  IF logThreshold >= 10
        THEN [m EXCEPT !.lastLoggedStoragePercent = logThreshold,
                       !.warned = @ \cup {logThreshold}]
        ELSE m

\* checkStorageUsage (content.js:165-193), given what getBytesInUse answers;
\* warned collects the 10 % boundaries of the warnings it logs.
checkStorageUsage(m, bytesUsed) ==
  IF ~m.contextValid \/ bytesUsed = Unreadable THEN m
  ELSE
    LET percentUsed == PercentUsed(bytesUsed)
        logThreshold == (percentUsed \div 10) * 10
        shouldLog ==
          \/ logThreshold > m.lastLoggedStoragePercent /\ logThreshold >= 10
          \/ /\ percentUsed >= STORAGE_LOG_THRESHOLD
             /\ m.lastLoggedStoragePercent < STORAGE_LOG_THRESHOLD
    IN  IF shouldLog
        THEN [m EXCEPT !.lastLoggedStoragePercent = logThreshold,
                       !.warned = @ \cup {logThreshold}]
        ELSE m

\* Mutant of CacheObj: every flush gives the entry a new lifetime.
CacheObj_Renewed(m, t) ==
  [k \in Keys |->
     IF ~CacheHas(m, k) THEN NoEntry
     ELSE LET entry == m.locationCache[k]
          IN  [location |-> entry.location,
               expiry |-> calculateExpiry(entry.location, t),
               cachedAt |-> IF entry.cachedAt # 0 THEN entry.cachedAt
                            ELSE t]]

\* The cacheObj that saveCache builds at t (content.js:209-219)
CacheObj(m, t) ==
  [k \in Keys |->
     IF ~CacheHas(m, k) THEN NoEntry
     ELSE LET entry == m.locationCache[k]
          IN  [location |-> entry.location,
               expiry |-> IF entry.expiry # 0 THEN entry.expiry
                          ELSE calculateExpiry(entry.location, t),
               cachedAt |-> IF entry.cachedAt # 0 THEN entry.cachedAt
                            ELSE t]]

\* The statsObj that saveCache builds (content.js:222-225)
StatsObj(m) == [l \in Locations |-> Cardinality(m.locationStats[l])]

\* saveCache returns; the debounce callback then clears saveCache.timeout
\* (content.js:303).
saveCacheEnd(m, s) ==
  [m EXCEPT !.saves[s] = NoSave,
            !.saveCacheTimeout = IF s = "debounce" THEN 0 ELSE @]

\* Mutant of saveCacheBegin: the interval timer of init flushes nothing.
saveCacheBegin_DebounceOnly(m, s) ==
  IF s = "periodic" THEN m
  ELSE IF ~m.contextValid THEN saveCacheEnd(m, s)
  ELSE [m EXCEPT !.saves[s].pc = "guard"]

\* saveCache up to the await of canWriteToStorage (content.js:196-203, 150-155)
saveCacheBegin(m, s) ==
  IF ~m.contextValid THEN saveCacheEnd(m, s)
  ELSE [m EXCEPT !.saves[s].pc = "guard"]

\* getBytesInUse of canWriteToStorage answers: saveCache either takes its
\* snapshot and calls chrome.storage.local.set (content.js:209-231), or goes
\* on to checkStorageUsage and returns (content.js:203-207).  A write issued
\* while another one is in flight lands behind it.
saveCacheGuard(m, s, bytesUsed, t) ==
  IF canWriteToStorage(m, bytesUsed)
  THEN [m EXCEPT !.saves[s] =
          [pc |-> "write", cacheObj |-> CacheObj(m, t),
           statsObj |-> StatsObj(m),
           behind |-> \E o \in SaveSlots : m.saves[o].pc = "write"]]
  ELSE IF ~m.contextValid THEN saveCacheEnd(m, s)
  ELSE [m EXCEPT !.saves[s].pc = "refused"]

\* Mutant of saveCacheWritten: the counts are read when the write settles.
saveCacheWritten_LateStats(m, s, landed) ==
  LET m1 == IF landed
            THEN [m EXCEPT !.storage = [cache |-> m.saves[s].cacheObj,
                                        stats |-> StatsObj(m)]]
            ELSE m
      m2 == [m1 EXCEPT !.saves = [o \in SaveSlots |->
                                    [m1.saves[o] EXCEPT !.behind = FALSE]]]
  IN  IF ~m.contextValid THEN saveCacheEnd(m2, s)
      ELSE [m2 EXCEPT !.saves[s] = [NoSave EXCEPT !.pc = "usage"]]

\* chrome.storage.local.set settles (content.js:228-233): the two keys are
\* replaced unless the write was lost with the extension context.
saveCacheWritten(m, s, landed) ==
  LET m1 == IF landed
            THEN [m EXCEPT !.storage = [cache |-> m.saves[s].cacheObj,
                                        stats |-> m.saves[s].statsObj]]
            ELSE m
      m2 == [m1 EXCEPT !.saves = [o \in SaveSlots |->
                                    [m1.saves[o] EXCEPT !.behind = FALSE]]]
  IN  IF ~m.contextValid THEN saveCacheEnd(m2, s)
      ELSE [m2 EXCEPT !.saves[s] = [NoSave EXCEPT !.pc = "usage"]]

\* getBytesInUse of the checkStorageUsage call of saveCache answers
\* (content.js:204, 233); saveCache returns.
saveCacheUsage(m, s, bytesUsed) ==
  saveCacheEnd(checkStorageUsage(m, bytesUsed), s)

\* The callback of the debounce timer (content.js:301-304), up to the first
\* await of saveCache
debounceTimer(m, d) ==
  saveCacheBegin([m EXCEPT !.debounceTimers = @ \ {d}], "debounce")

\* Mutant of loadCache: an entry is still loaded at its expiry instant.
loadCache_Inclusive(m, t) ==
  IF ~m.contextValid THEN m
  ELSE
    LET kept == {k \in Keys : /\ m.storage.cache[k] # NoEntry
                              /\ m.storage.cache[k].expiry # 0
                              /\ m.storage.cache[k].expiry >= t}
    IN  [m EXCEPT
          !.locationCache =
             [k \in Keys |->
                IF k \in kept
                THEN [location |-> m.storage.cache[k].location,
                      expiry |-> m.storage.cache[k].expiry,
                      cachedAt |-> 0]
                ELSE @[k]],
          !.locationStats =
             [l \in Locations |->
                @[l] \cup {k \in kept : m.storage.cache[k].location = l}]]

\* Mutant of loadCache: the entries are loaded whatever the state of the
\* extension context is.
loadCache_NoContextTest(m, t) ==
  LET kept == {k \in Keys : /\ m.storage.cache[k] # NoEntry
                            /\ m.storage.cache[k].expiry # 0
                            /\ m.storage.cache[k].expiry > t}
  IN  [m EXCEPT
        !.locationCache =
           [k \in Keys |->
              IF k \in kept
              THEN [location |-> m.storage.cache[k].location,
                    expiry |-> m.storage.cache[k].expiry,
                    cachedAt |-> 0]
              ELSE @[k]],
        !.locationStats =
           [l \in Locations |->
              @[l] \cup {k \in kept : m.storage.cache[k].location = l}]]

\* loadCache (content.js:96-139) at t: the stored entries that have not
\* expired are put into locationCache without cachedAt, and their names into
\* the aggregator.
loadCache(m, t) ==
  IF ~m.contextValid THEN m
  ELSE
    LET kept == {k \in Keys : /\ m.storage.cache[k] # NoEntry
                              /\ m.storage.cache[k].expiry # 0
                              /\ m.storage.cache[k].expiry > t}
    IN  [m EXCEPT
          !.locationCache =
             [k \in Keys |->
                IF k \in kept
                THEN [location |-> m.storage.cache[k].location,
                      expiry |-> m.storage.cache[k].expiry,
                      cachedAt |-> 0]
                ELSE @[k]],
          !.locationStats =
             [l \in Locations |->
                @[l] \cup {k \in kept : m.storage.cache[k].location = l}]]

\* ----------------------------------------------------------------- actions
Start(capacity) ==
  /\ now = StartTime
  /\ locationCache = [k \in Keys |-> NoEntry]
  /\ locationStats = [l \in Locations |-> {}]
  /\ requestQueue = << >>
  /\ isProcessingQueue = FALSE
  /\ lastRequestTime = 0
  /\ activeRequests = 0
  /\ rateLimitResetTime = 0
  /\ consecutiveRateLimits = 0
  /\ pendingLocationRequests = [k \in Keys |-> 0]
  /\ promises = [i \in TaskIds |-> NoPromise]
  /\ waiters = [i \in TaskIds |-> 0]
  /\ nextId = 1
  /\ drainPc = "idle"
  /\ inflight = NoTask
  /\ remote = {}
  /\ timeoutTimers = {}
  /\ pqTimers = {}
  /\ saveCacheTimeout = 0
  /\ contextValid = TRUE
  /\ signals = 0
  /\ extensionEnabled = TRUE
  /\ queueCapacity = capacity
  /\ debounceTimers = {}
  /\ saves = [s \in SaveSlots |-> NoSave]
  /\ storage = EmptyStorage
  /\ lastLoggedStoragePercent = 0 - 1
  /\ restarts = 0

\* The state after construction, with the queue capacity of the model.
Init == Start(MAX_QUEUE_SIZE)

\* The same with room for one more task in the queue, so that the drain loop
\* has to choose among queued tasks.
InitFifo == Start(MAX_QUEUE_SIZE + 1)

\* The model's bounds allow a getLocation(k) call in the current state.
CallAllowed(k) ==
  LET p == pendingLocationRequests[k]
  IN  /\ (p # 0 /\ promises[p].state = "pending") => waiters[p] < MaxWaiters
      /\ (p = 0 /\ ~QueueFull(Cur)) => nextId <= MaxTasks

\* A caller asks for the location of k.
GetLocation(k) ==
  /\ CallAllowed(k)
  /\ Commit(getLocation(Cur, k, now))
  /\ UNCHANGED now

\* The page answers the request in flight.
LocationResponse(location, rateLimited) ==
  /\ inflight # NoTask
  /\ inflight.id \in remote
  /\ Commit(locationResponse([Cur EXCEPT !.remote = @ \ {inflight.id}],
                             location, rateLimited, now))
  /\ UNCHANGED now

\* The page answers a request whose handler the timeout has removed.
LateResponse(id) ==
  /\ id \in remote
  /\ id # inflight.id
  /\ remote' = remote \ {id}
  /\ UNCHANGED <<now, locationCache, locationStats, requestQueue,
                 isProcessingQueue, lastRequestTime, activeRequests,
                 rateLimitResetTime, consecutiveRateLimits,
                 pendingLocationRequests, promises, waiters, nextId, drainPc,
                 inflight, timeoutTimers, pqTimers, saveCacheTimeout,
                 contextValid, signals, extensionEnabled, queueCapacity,
                 debounceTimers, saves, storage, lastLoggedStoragePercent,
                 restarts>>

\* The timeout timer of a request fires.
RequestTimeout(tm) ==
  /\ tm \in timeoutTimers
  /\ tm.at <= now
  /\ Commit(requestTimeout(Cur, tm, now))
  /\ UNCHANGED now

\* The pacing timer fires (content.js:390): the loop pops and sends.
PacingDone ==
  /\ drainPc = "pacing"
  /\ PacingDeadline(Cur) <= now
  /\ requestQueue # << >>
  /\ Commit(Dispatch(Cur, now))
  /\ UNCHANGED now

\* The page reports throttling while it works on the request in flight.
RateLimitInfo(apiResetTime) ==
  /\ inflight # NoTask
  /\ signals < MaxSignals
  /\ Commit(rateLimitInfo([Cur EXCEPT !.signals = @ + 1], apiResetTime, now))
  /\ UNCHANGED now

\* Time passes, up to the next request timeout or pacing deadline at most;
\* the queue timers and the debounce timer due by then run on the way.  The
\* clock stops for good once MaxTasks tasks were created and no request
\* timer is left.
Tick ==
  \E t \in StopDeadlines \cup Horizon :
    /\ t > now
    /\ \A d \in StopDeadlines : t <= d
    /\ nextId <= MaxTasks \/ StopDeadlines # {}
    /\ now' = t
    /\ Commit(RunDueTimers(Cur, t))

ApiResetTimes == {(now \div 10) + ApiResetSoon, (now \div 10) + ApiResetAhead}

Next ==
  \/ \E k \in Keys : GetLocation(k)
  \/ \E l \in Locations \cup {Null}, r \in BOOLEAN : LocationResponse(l, r)
  \/ \E id \in TaskIds : LateResponse(id)
  \/ \E tm \in timeoutTimers : RequestTimeout(tm)
  \/ PacingDone
  \/ \E a \in ApiResetTimes : RateLimitInfo(a)
  \/ Tick

Spec == Init /\ [][Next]_vars

\* ------------------------------------------- control signals and environment
\* The 'extensionToggle' branch of the onMessage listener (content.js:75-87);
\* removeAllFlags and processUsernamesThrottled touch the page only.
extensionToggle(m, enabled) == [m EXCEPT !.extensionEnabled = enabled]

\* Mutant of resetStats: the reset drops the cache as well.
resetStats_ClearsCache(m) ==
  [m EXCEPT !.locationStats = [l \in DOMAIN @ |-> {}],
            !.locationCache = [k \in DOMAIN @ |-> NoEntry]]

\* The 'resetStats' branch of the onMessage listener (content.js:88-92)
resetStats(m) == [m EXCEPT !.locationStats = [l \in DOMAIN @ |-> {}]]

\* The popup switches the extension on or off.
ExtensionToggle(enabled) ==
  /\ Commit(extensionToggle(Cur, enabled))
  /\ UNCHANGED now

\* The popup resets the statistics.
ResetStats ==
  /\ Commit(resetStats(Cur))
  /\ UNCHANGED now

\* The extension is reloaded or removed while the page stays open:
\* chrome.runtime.id is gone from then on (content.js:141-143).
InvalidateContext ==
  /\ contextValid
  /\ Commit([Cur EXCEPT !.contextValid = FALSE])
  /\ UNCHANGED now

\* processUsernames (content.js:1076-1093) asks for the location of a name on
\* the page, unless the extension is switched off.
ProcessUsernames(k) ==
  /\ extensionEnabled
  /\ GetLocation(k)

ControlNext ==
  \/ \E k \in Keys : ProcessUsernames(k)
  \/ \E l \in Locations \cup {Null}, r \in BOOLEAN : LocationResponse(l, r)
  \/ \E id \in TaskIds : LateResponse(id)
  \/ \E tm \in timeoutTimers : RequestTimeout(tm)
  \/ PacingDone
  \/ Tick
  \/ \E enabled \in BOOLEAN : ExtensionToggle(enabled)
  \/ ResetStats
  \/ InvalidateContext

\* The resolver with the control signals of the popup and the loss of the
\* extension context, without rate-limit signals.
SpecControl == Init /\ [][ControlNext]_vars

\* The resolver with a queue of capacity MAX_QUEUE_SIZE + 1.
SpecFifo == InitFifo /\ [][Next]_vars

\* The resolver under fair scheduling: time passes, and a timer that is due
\* fires.
Fairness ==
  /\ WF_vars(Tick)
  /\ WF_vars(PacingDone)
  /\ WF_vars(\E tm \in timeoutTimers : RequestTimeout(tm))

\* A call made while fewer than LiveTasks tasks have been created.
GetLocationLive(k) ==
  /\ nextId <= LiveTasks
  /\ GetLocation(k)

LiveNext ==
  \/ \E k \in Keys : GetLocationLive(k)
  \/ \E l \in Locations \cup {Null}, r \in BOOLEAN : LocationResponse(l, r)
  \/ \E id \in TaskIds : LateResponse(id)
  \/ \E tm \in timeoutTimers : RequestTimeout(tm)
  \/ PacingDone
  \/ \E a \in ApiResetTimes : RateLimitInfo(a)
  \/ Tick

SpecLive == Init /\ [][LiveNext]_vars /\ Fairness

\* The page reports throttling for a request whose timeout has fired and
\* whose answer is still outstanding: no request is in flight any more.
LateRateLimitInfo(apiResetTime) ==
  /\ inflight = NoTask
  /\ remote # {}
  /\ signals < MaxSignals
  /\ Commit(rateLimitInfo([Cur EXCEPT !.signals = @ + 1], apiResetTime, now))
  /\ UNCHANGED now

LateNext ==
  \/ \E k \in Keys : GetLocationLive(k)
  \/ \E l \in Locations \cup {Null}, r \in BOOLEAN : LocationResponse(l, r)
  \/ \E id \in TaskIds : LateResponse(id)
  \/ \E tm \in timeoutTimers : RequestTimeout(tm)
  \/ PacingDone
  \/ \E a \in ApiResetTimes : RateLimitInfo(a)
  \/ \E a \in ApiResetTimes : LateRateLimitInfo(a)
  \/ Tick

\* The resolver with rate-limit signals that arrive after the request they
\* belong to has timed out.
SpecLate == Init /\ [][LateNext]_vars

\* ------------------------------------------------- the resolver with storage
BytesSamples == {BytesLow, BytesHigh}
\* The screen names asked for
KeysStore == {AllKeys[i] : i \in 1..StoreKeys}

\* A call made while fewer than StoreTasks tasks have been created.
GetLocationStore(k) ==
  /\ nextId <= StoreTasks
  /\ GetLocation(k)

\* The debounce timer of saveCacheEntry fires.
DebounceTimer ==
  /\ saveCacheTimeout \in debounceTimers
  /\ saveCacheTimeout <= now
  /\ Commit(debounceTimer(Cur, saveCacheTimeout))
  /\ UNCHANGED now

\* The setInterval(saveCache, CACHE_PERIODIC_SAVE) of init fires
\* (content.js:1147); its phase against the other timers is free.
PeriodicSave ==
  /\ saves["periodic"].pc = "idle"
  /\ Commit(saveCacheBegin(Cur, "periodic"))
  /\ UNCHANGED now

\* chrome.storage.local answers the getBytesInUse of canWriteToStorage.
GuardAnswer(s, bytesUsed) ==
  /\ saves[s].pc = "guard"
  /\ Commit(saveCacheGuard(Cur, s, bytesUsed, now))
  /\ UNCHANGED now

\* chrome.storage.local.set settles; writes settle in the order of the calls.
WriteSettled(s, landed) ==
  /\ saves[s].pc = "write"
  /\ ~saves[s].behind
  /\ contextValid => landed
  /\ Commit(saveCacheWritten(Cur, s, landed))
  /\ UNCHANGED now

\* chrome.storage.local answers the getBytesInUse of checkStorageUsage.
UsageAnswer(s, bytesUsed) ==
  /\ saves[s].pc \in {"usage", "refused"}
  /\ Commit(saveCacheUsage(Cur, s, bytesUsed))
  /\ UNCHANGED now

\* The memory of a content script that has just started, over the storage
\* and the model's counters of m (content.js:32-59).
FreshProcess(m, valid) ==
  [m EXCEPT
    !.locationCache = [k \in Keys |-> NoEntry],
    !.locationStats = [l \in Locations |-> {}],
    !.requestQueue = << >>,
    !.isProcessingQueue = FALSE,
    !.lastRequestTime = 0,
    !.activeRequests = 0,
    !.rateLimitResetTime = 0,
    !.consecutiveRateLimits = 0,
    !.pendingLocationRequests = [k \in Keys |-> 0],
    !.promises = [i \in TaskIds |-> NoPromise],
    !.waiters = [i \in TaskIds |-> 0],
    !.drainPc = "idle",
    !.inflight = NoTask,
    !.remote = {},
    !.timeoutTimers = {},
    !.pqTimers = {},
    !.saveCacheTimeout = 0,
    !.debounceTimers = {},
    !.contextValid = valid,
    !.lastLoggedStoragePercent = 0 - 1,
    !.restarts = @ + 1]

\* The page is loaded again while no saveCache() is running: a new content
\* script starts over the same storage and runs init (content.js:1127-1148):
\* loadCache, then checkStorageUsage.
Restart(bytesUsed) ==
  /\ restarts < MaxRestarts
  /\ \A s \in SaveSlots : saves[s].pc = "idle"
  /\ Commit(checkStorageUsage(loadCache(FreshProcess(Cur, TRUE), now),
                              bytesUsed))
  /\ UNCHANGED now

\* The same while the extension is being reloaded: the new content script
\* finds its extension context gone when init runs.
RestartOrphaned(bytesUsed) ==
  /\ restarts < MaxRestarts
  /\ \A s \in SaveSlots : saves[s].pc = "idle"
  /\ Commit(checkStorageUsage(loadCache(FreshProcess(Cur, FALSE), now),
                              bytesUsed))
  /\ UNCHANGED now

\* The queue timers that are due by t run, each at its own deadline.
RECURSIVE RunQueueTimers(_, _)
RunQueueTimers(m, t) ==
  LET due == {d \in m.pqTimers : d <= t}
  IN  IF due = {} THEN m
      ELSE LET d == Least(due)
           IN  RunQueueTimers(
                 processRequestQueue([m EXCEPT !.pqTimers = @ \ {d}], d), t)

\* Time passes, up to the next request timeout, pacing deadline or debounce
\* deadline at most.
TickStore ==
  \E t \in StopDeadlines \cup debounceTimers \cup Horizon :
    /\ t > now
    /\ \A d \in StopDeadlines \cup debounceTimers : t <= d
    /\ now' = t
    /\ Commit(RunQueueTimers(Cur, t))

StoreNext ==
  \/ \E k \in KeysStore : GetLocationStore(k)
  \/ \E l \in Locations \cup {Null}, r \in BOOLEAN : LocationResponse(l, r)
  \/ \E id \in TaskIds : LateResponse(id)
  \/ \E tm \in timeoutTimers : RequestTimeout(tm)
  \/ PacingDone
  \/ TickStore
  \/ DebounceTimer
  \/ PeriodicSave
  \/ \E s \in SaveSlots, b \in BytesSamples \cup {Unreadable} : GuardAnswer(s, b)
  \/ \E s \in SaveSlots, landed \in BOOLEAN : WriteSettled(s, landed)
  \/ \E s \in SaveSlots, b \in BytesSamples \cup {Unreadable} : UsageAnswer(s, b)
  \/ \E b \in BytesSamples : Restart(b)

\* The resolver over durable storage: the flushes of saveCache in their
\* steps, and page reloads.
SpecStore == Init /\ [][StoreNext]_vars

\* The same resolver while storage is available and under quota: every
\* getBytesInUse answers BytesLow, every write lands, the page is not loaded
\* again; the page answers a lookup with a location or reports throttling.
StoreLiveNext ==
  \/ \E k \in KeysStore : GetLocationStore(k)
  \/ \E l \in Locations, r \in BOOLEAN : LocationResponse(l, r)
  \/ \E id \in TaskIds : LateResponse(id)
  \/ \E tm \in timeoutTimers : RequestTimeout(tm)
  \/ PacingDone
  \/ TickStore
  \/ DebounceTimer
  \/ PeriodicSave
  \/ \E s \in SaveSlots : GuardAnswer(s, BytesLow)
  \/ \E s \in SaveSlots : WriteSettled(s, TRUE)
  \/ \E s \in SaveSlots : UsageAnswer(s, BytesLow)

\* A timer of the content script other than the interval timer, or the clock
StoreTimers ==
  \/ TickStore
  \/ PacingDone
  \/ \E tm \in timeoutTimers : RequestTimeout(tm)
  \/ DebounceTimer

\* An answer of chrome.storage.local to a running saveCache
StorageAnswers ==
  \/ \E s \in SaveSlots : GuardAnswer(s, BytesLow)
  \/ \E s \in SaveSlots : WriteSettled(s, TRUE)
  \/ \E s \in SaveSlots : UsageAnswer(s, BytesLow)

\* Fair timers and a storage that answers: time passes and a timer that is
\* due fires, the interval timer of init keeps firing, and the calls of
\* chrome.storage.local settle.
StoreFairness ==
  /\ WF_vars(StoreTimers)
  /\ WF_vars(PeriodicSave)
  /\ WF_vars(StorageAnswers)

SpecStoreLive == Init /\ [][StoreLiveNext]_vars /\ StoreFairness

ContextNext ==
  \/ \E k \in KeysStore : GetLocationStore(k)
  \/ \E l \in Locations, r \in BOOLEAN : LocationResponse(l, r)
  \/ \E id \in TaskIds : LateResponse(id)
  \/ \E tm \in timeoutTimers : RequestTimeout(tm)
  \/ PacingDone
  \/ TickStore
  \/ DebounceTimer
  \/ PeriodicSave
  \/ \E s \in SaveSlots : GuardAnswer(s, BytesLow)
  \/ \E s \in SaveSlots, landed \in BOOLEAN : WriteSettled(s, landed)
  \/ \E s \in SaveSlots : UsageAnswer(s, BytesLow)
  \/ InvalidateContext
  \/ Restart(BytesLow)
  \/ RestartOrphaned(BytesLow)

\* The resolver over a storage that is under quota, with the loss of the
\* extension context at any moment, also while a content script starts.
SpecContext == Init /\ [][ContextNext]_vars

\* ------------------------------------------------------------------ claims
\* The program state of a handler's result, without what it handed out.
StateOf(m) ==
  [m EXCEPT !.ret = NoRet, !.settled = {}, !.sent = {}, !.warned = {}]

\* k has an unexpired cache entry
Cached(k) == CacheHas(Cur, k) /\ locationCache[k].expiry > now

\* The tasks of key k that are queued or in flight
UnsettledTasks(k) ==
  {requestQueue[i] : i \in {j \in 1..Len(requestQueue) :
                              requestQueue[j].screenName = k}}
  \cup (IF inflight.screenName = k THEN {inflight} ELSE {})

\* Ids of the unsettled promises of key k in a promise table
PendingOf(ps, k) ==
  {i \in TaskIds : ps[i].screenName = k /\ ps[i].state = "pending"}

\* C1: single-flight.  While a getLocation(k) call is unsettled, no step
\* creates another task for k (every further call joins the unsettled one, so
\* the N calls cause one dispatch), and the callers a settlement wakes all
\* return the same outcome.
C1_SingleFlight ==
  [][\A k \in Keys :
       /\ PendingOf(promises, k) # {}
            => PendingOf(promises', k) \subseteq PendingOf(promises, k)
       /\ \A tm \in timeoutTimers :
            (tm.at <= now /\ tm.screenName = k)
              => \A s \in requestTimeout(Cur, tm, now).settled :
                   s.waiting > 0 => s.waiter = s.owner]_vars

\* C2: at most one unsettled task per key: requestQueue and the request in
\* flight never hold two tasks of the same screenName.
C2_OneTaskPerKey ==
  \A k \in Keys : Cardinality(UnsettledTasks(k)) <= 1

\* C3: pendingLocationRequests never holds a settled promise.
C3_NoSettledPending ==
  \A k \in Keys :
    pendingLocationRequests[k] # 0
      => promises[pendingLocationRequests[k]].state = "pending"

\* C4: a getLocation(k) call that finds an entry for k returns the entry's
\* value from the cache, changing nothing, when now < expiry; when
\* now >= expiry it does not answer from the cache and the entry is removed.
C4_CacheNeverStale ==
  \A k \in Keys :
    (CacheHas(Cur, k) /\ CallAllowed(k))
      => LET e == locationCache[k]
             m == getLocation(Cur, k, now)
         IN  IF now < e.expiry
             THEN /\ m.ret = [kind |-> "hit", screenName |-> k,
                              location |-> e.location]
                  /\ StateOf(m) = Cur
             ELSE /\ m.ret.kind # "hit"
                  /\ m.locationCache[k] = NoEntry

\* C4 witness: the clock has reached the expiry of an entry that is still in
\* the map, and a call for its key is possible.
C4_Witness ==
  \E k \in Keys :
    CacheHas(Cur, k) /\ locationCache[k].expiry <= now /\ CallAllowed(k)

\* C5: when the timeout of the request in flight fires, the task resolves
\* with null, the cache is not written, the key is afterwards neither cached
\* nor pending, and a later getLocation(k) is answered neither from the cache
\* nor by a registered promise.
C5_TimeoutLeavesNoTrace ==
  \A tm \in timeoutTimers :
    (tm.at <= now /\ inflight.id = tm.id)
      => LET k == tm.screenName
             m == requestTimeout(Cur, tm, now)
         IN  /\ \E s \in m.settled :
                  s.id = tm.id /\ s.state = "resolved" /\ s.owner = Null
             /\ m.locationCache = locationCache
             /\ m.pendingLocationRequests[k] = 0
             /\ ~CacheHas(m, k)
             /\ (m.nextId <= MaxTasks)
                  => getLocation(StateOf(m), k, now).ret.kind
                       \in {"queued", "rejected", "full"}

\* C6: neither an answer flagged isRateLimited nor a rate-limit rejection
\* writes the cache: the flagged answer to the request in flight leaves
\* locationCache as it is, and a getLocation call whose task is rejected
\* stores no entry.
C6_ThrottledNeverCached ==
  /\ (inflight # NoTask /\ inflight.id \in remote)
       => \A l \in Locations \cup {Null} :
            locationResponse(Cur, l, TRUE, now).locationCache = locationCache
  /\ \A k \in Keys :
       CallAllowed(k)
         => LET m == getLocation(Cur, k, now)
            IN  m.ret.kind = "rejected"
                  => \A j \in Keys :
                       m.locationCache[j] \in {locationCache[j], NoEntry}

\* C6 witness: a request was answered while its timeout timer is still
\* pending and its key has no entry (the answer was flagged), and the promise
\* of a rate-limit rejected task is held for a key that has no entry.
C6_Witness ==
  /\ \E tm \in timeoutTimers :
       /\ tm.id \notin remote /\ inflight.id # tm.id
       /\ locationCache[tm.screenName] = NoEntry
  /\ \E k \in Keys :
       /\ pendingLocationRequests[k] # 0
       /\ promises[pendingLocationRequests[k]].state = "rejected"
       /\ locationCache[k] = NoEntry

\* C7: requestQueue never holds more than MAX_QUEUE_SIZE tasks, and a
\* getLocation call made while it holds MAX_QUEUE_SIZE leaves it as it is.
C7_QueueBounded ==
  /\ Len(requestQueue) <= MAX_QUEUE_SIZE
  /\ \A k \in Keys :
       (Len(requestQueue) >= MAX_QUEUE_SIZE /\ CallAllowed(k))
         => getLocation(Cur, k, now).requestQueue = requestQueue

\* C7 witness: the queue is full and a key that is neither cached nor pending
\* can still be asked for.
C7_Witness ==
  /\ Len(requestQueue) = MAX_QUEUE_SIZE
  /\ nextId <= MaxTasks
  /\ \E k \in Keys : pendingLocationRequests[k] = 0 /\ ~CacheHas(Cur, k)

\* C8 as stated: getLocation(k) for a key that is neither cached nor pending,
\* made while the queue is full, returns {location: null} and leaves
\* requestQueue, pendingLocationRequests and locationCache unchanged.
C8_FullQueueChangesNothing ==
  \A k \in Keys :
    (/\ Len(requestQueue) >= MAX_QUEUE_SIZE
     /\ pendingLocationRequests[k] = 0 /\ ~Cached(k))
      => LET m == getLocation(Cur, k, now)
         IN  /\ m.ret = [kind |-> "full", screenName |-> k, location |-> Null]
             /\ m.requestQueue = requestQueue
             /\ m.pendingLocationRequests = pendingLocationRequests
             /\ m.locationCache = locationCache

\* C8: getLocation(k) for a key that is neither cached nor pending, made
\* while the queue is full, returns {location: null} and leaves requestQueue
\* and pendingLocationRequests unchanged; locationCache is unchanged except
\* that an expired entry of k is removed.
C8_FullQueueOnlyEvicts ==
  \A k \in Keys :
    (/\ Len(requestQueue) >= MAX_QUEUE_SIZE
     /\ pendingLocationRequests[k] = 0 /\ ~Cached(k))
      => LET m == getLocation(Cur, k, now)
         IN  /\ m.ret = [kind |-> "full", screenName |-> k, location |-> Null]
             /\ StateOf(m) = [Cur EXCEPT !.locationCache[k] = NoEntry]

\* C8 witness: the queue is full and a key that is not pending has an
\* expired entry.
C8_Witness ==
  /\ Len(requestQueue) >= MAX_QUEUE_SIZE
  /\ \E k \in Keys :
       /\ pendingLocationRequests[k] = 0
       /\ CacheHas(Cur, k) /\ locationCache[k].expiry <= now

\* C9: no step hands a request to the page while the rate-limit window is
\* active (now < rateLimitResetTime).
C9_NoDispatchWhileLimited ==
  [][~(remote' \subseteq remote)
       => ~((now' \div 10) < rateLimitResetTime')]_vars

\* C10: a rate-limit signal handled during an active window does not lower
\* rateLimitResetTime.
C10_SignalNeverShrinks ==
  [][(signals' > signals /\ isRateLimited(Cur, now))
       => rateLimitResetTime' >= rateLimitResetTime]_vars

\* C11: a rate-limit signal that arrives while the window of an earlier
\* signal is still active (no recovery in between) is at least the second of
\* its run, so its backoff wait is at least twice the base wait.
C11_BackoffDoubles ==
  [][(signals' > signals /\ isRateLimited(Cur, now))
       => BASE_BACKOFF_MINUTES * Pow2(consecutiveRateLimits' - 1)
            >= 2 * BASE_BACKOFF_MINUTES]_vars

\* The requests that were sent and are settled neither by an answer nor by
\* their timeout.
UnsettledRequests == {tm \in timeoutTimers : tm.id \in remote}

\* C12: activeRequests is 0 or 1, never above MAX_CONCURRENT_REQUESTS, and it
\* counts the requests that were sent and are not settled: no request is sent
\* while an earlier one is unsettled.
C12_OneActiveRequest ==
  /\ activeRequests \in 0..MAX_CONCURRENT_REQUESTS
  /\ activeRequests = Cardinality(UnsettledRequests)

\* C12 witness: a task waits in the queue while a request is unsettled.
C12_Witness ==
  activeRequests = 1 /\ requestQueue # << >> /\ UnsettledRequests # {}

\* C14: whenever a request is sent, at least MIN_REQUEST_INTERVAL has passed
\* since the previous value of lastRequestTime.
C14_Pacing ==
  [][~(remote' \subseteq remote)
       => now' - lastRequestTime >= MIN_REQUEST_INTERVAL]_vars

\* C14 witness: a request has just been sent exactly MIN_REQUEST_INTERVAL
\* after the one before it, whose timeout timer is still pending.
C14_Witness ==
  /\ inflight # NoTask /\ lastRequestTime = now
  /\ \E tm \in timeoutTimers :
       /\ tm.id # inflight.id
       /\ tm.at - REQUEST_TIMEOUT = lastRequestTime - MIN_REQUEST_INTERVAL

\* C16: a getLocation(k) call that finds an unexpired entry returns it at
\* once: no task is created or queued, no promise is registered, nothing is
\* sent, and no other part of the state changes.
C16_CacheHitFrame ==
  \A k \in Keys :
    Cached(k)
      => LET m == getLocation(Cur, k, now)
         IN  /\ m.ret.kind = "hit"
             /\ m.ret.location = locationCache[k].location
             /\ m.nextId = nextId
             /\ m.requestQueue = requestQueue
             /\ m.pendingLocationRequests = pendingLocationRequests
             /\ m.sent = {} /\ m.remote = remote
             /\ StateOf(m) = Cur

\* C16 witness: a key has an unexpired entry while another request is in
\* flight and the queue holds a task.
C16_Witness ==
  /\ \E k \in Keys : Cached(k)
  /\ inflight # NoTask /\ requestQueue # << >>

\* The ids of the tasks that were sent: a sent task has a timeout timer, an
\* unanswered message or is the one in flight.
SentIds ==
  {tm.id : tm \in timeoutTimers} \cup remote
  \cup (IF inflight = NoTask THEN {} ELSE {inflight.id})

\* C13: tasks are sent in the order of their appends (ids count the appends):
\* the queue is in append order and every queued task was appended after
\* every task that has been sent.
C13_Fifo ==
  /\ \A i, j \in 1..Len(requestQueue) :
       i < j => requestQueue[i].id < requestQueue[j].id
  /\ \A i \in 1..Len(requestQueue) :
       \A d \in SentIds : d < requestQueue[i].id

\* C13 witness: the drain loop is about to pop while two tasks are queued.
C13_Witness ==
  Len(requestQueue) >= 2 /\ drainPc = "pacing"

\* C15: under fair scheduling of timers every task accepted into the queue
\* is eventually settled: its promise does not stay pending for ever.
C15_EveryTaskSettles ==
  \A id \in 1..LiveTasks :
    (promises[id].state = "pending") ~> (promises[id].state # "pending")

\* C15 witness: a request got no answer and was settled by its timeout while
\* a rate-limit window is active.
C15_Witness ==
  /\ isRateLimited(Cur, now)
  /\ \E id \in remote : id # inflight.id /\ promises[id].state # "pending"

\* C17: when the request in flight for key k receives a non-throttled answer
\* v before its timeout, the cache afterwards holds an entry for k with value
\* v, and if v is not null k is in the aggregator set of v.
C17_AnswerIsCached ==
  (inflight # NoTask /\ inflight.id \in remote)
    => \A v \in Locations \cup {Null} :
         LET k == inflight.screenName
             m == locationResponse(Cur, v, FALSE, now)
         IN  /\ CacheHas(m, k)
             /\ m.locationCache[k].location = v
             /\ (v # Null => k \in m.locationStats[v])

\* The keys whose unexpired cache entry holds v
LiveKeys(v) == {k \in Keys : Cached(k) /\ locationCache[k].location = v}

\* C18: for every value v the aggregator count of v equals the number of
\* distinct keys whose unexpired cache entry holds v.
C18_CountsMatchCache ==
  \A v \in Locations :
    Cardinality(locationStats[v]) = Cardinality(LiveKeys(v))

\* C19: while the extension is switched off no step sends a request, queued
\* tasks included.
C19_DisabledSendsNothing ==
  [][(~extensionEnabled /\ ~extensionEnabled') => remote' \subseteq remote]_vars

\* C20: the resetStats signal empties every aggregator set and leaves the
\* cache, the queue, the pending map, the rate-limit state and all the rest
\* of the state unchanged.
C20_ResetStatsFrame ==
  LET m == resetStats(Cur)
  IN  /\ \A v \in Locations : m.locationStats[v] = {}
      /\ m.locationCache = locationCache
      /\ m.requestQueue = requestQueue
      /\ m.pendingLocationRequests = pendingLocationRequests
      /\ m.rateLimitResetTime = rateLimitResetTime
      /\ m.consecutiveRateLimits = consecutiveRateLimits
      /\ [m EXCEPT !.locationStats = locationStats] = Cur

\* C20 witness: the aggregator is empty although the cache holds an unexpired
\* non-null entry: a reset has been handled.
C20_Witness ==
  \E v \in Locations : locationStats[v] = {} /\ LiveKeys(v) # {}

\* C21: an entry with value null expires strictly before an entry with a
\* non-null value created at the same instant, at every instant the resolver
\* reaches and at the instants at which its entries were created.
C21_NullExpiresFirst ==
  \A v \in Locations :
    \A t \in {now} \cup {locationCache[k].cachedAt : k \in Keys} :
      calculateExpiry(Null, t) < calculateExpiry(v, t)

\* C21 witness: a null entry and a non-null entry were created at the same
\* instant, and the null entry expires first.
C21_Witness ==
  \E j, k \in Keys :
    /\ CacheHas(Cur, j) /\ CacheHas(Cur, k)
    /\ locationCache[j].location = Null /\ locationCache[k].location # Null
    /\ locationCache[j].cachedAt = locationCache[k].cachedAt
    /\ locationCache[j].expiry < locationCache[k].expiry

\* C28: a getLocation call that starts the drain inside the rate-limit window
\* (no drain is running, the key is neither cached nor pending, the queue has
\* room) has every queued task rejected with 'Rate limited' in that step: the
\* queue is empty afterwards, nothing is sent, and a re-check is scheduled
\* after min(remaining wait, 60 s).
C28_DrainWhileLimitedRejects ==
  \A k \in Keys :
    (/\ isRateLimited(Cur, now) /\ ~isProcessingQueue
     /\ ~Cached(k) /\ pendingLocationRequests[k] = 0
     /\ Len(requestQueue) < queueCapacity /\ nextId <= MaxTasks)
      => LET m == getLocation(Cur, k, now)
             wait == (rateLimitResetTime - (now \div 10)) * 10
             recheck == IF wait <= RECHECK_CAP THEN wait ELSE RECHECK_CAP
         IN  /\ m.requestQueue = << >>
             /\ \A task \in UnsettledTasks(k) \cup {[screenName |-> k, id |-> nextId]} :
                  \E st \in m.settled :
                    /\ st.id = task.id /\ st.state = "rejected"
                    /\ st.owner = RateLimitedError
             /\ m.ret.kind = "rejected"
             /\ m.sent = {} /\ m.remote = remote /\ m.inflight = inflight
             /\ m.pqTimers = pqTimers \cup {now + recheck}
             /\ ~m.isProcessingQueue

\* C28 witness: a task was rejected inside the window and the re-check timer
\* capped at 60 s is pending.
C28_Witness ==
  /\ isRateLimited(Cur, now)
  /\ now + RECHECK_CAP \in pqTimers
  /\ \E k \in Keys :
       /\ pendingLocationRequests[k] # 0
       /\ promises[pendingLocationRequests[k]].state = "rejected"

\* C29: once the rate-limit window has lapsed, a getLocation(k) call for a
\* key that has no unexpired entry is not refused with 'Rate limited': it
\* joins an unsettled request or is enqueued again.
C29_RejectionIsNotPermanent ==
  \A k \in Keys :
    (~isRateLimited(Cur, now) /\ ~Cached(k) /\ CallAllowed(k))
      => getLocation(Cur, k, now).ret.kind \notin {"throw", "rejected"}

C22_LoadKeepsUnexpired ==
  [][restarts' > restarts
       => \A k \in Keys :
            LET data == storage.cache[k]
            IN  /\ (data = NoEntry \/ data.expiry <= now)
                     => locationCache'[k] = NoEntry
                /\ (data # NoEntry /\ data.expiry > now)
                     => /\ locationCache'[k].location = data.location
                        /\ locationCache'[k].expiry = data.expiry
                        /\ data.location # Null
                             => k \in locationStats'[data.location]]_vars

\* C22 witness: after a reload one stored entry was dropped at its expiry and
\* another one was loaded.
C22_Witness ==
  /\ restarts = 1
  /\ \E j, k \in Keys :
       /\ storage.cache[j] # NoEntry /\ storage.cache[j].expiry <= now
       /\ locationCache[j] = NoEntry
       /\ storage.cache[k] # NoEntry /\ storage.cache[k].expiry > now
       /\ locationCache[k].expiry = storage.cache[k].expiry
       /\ locationCache[k].cachedAt = 0

\* C23: every cache entry has expiry > cachedAt: the entries in memory that
\* carry a cachedAt, the records of a snapshot handed to storage, and the
\* records in storage.
C23_ExpiryAfterCachedAt ==
  \A k \in Keys :
    /\ (CacheHas(Cur, k) /\ locationCache[k].cachedAt # 0)
         => locationCache[k].expiry > locationCache[k].cachedAt
    /\ \A s \in SaveSlots :
         saves[s].cacheObj[k] # NoEntry
           => saves[s].cacheObj[k].expiry > saves[s].cacheObj[k].cachedAt
    /\ storage.cache[k] # NoEntry
         => storage.cache[k].expiry > storage.cache[k].cachedAt

\* C24: a saveCache whose quota guard fails (the usage is at or above
\* STORAGE_LOG_THRESHOLD percent of the quota, or cannot be read) issues no
\* write and leaves storage, locationCache and locationStats as they are, in
\* the step of the guard and in the step that ends the flush; the flush ends
\* and its caller goes on.
C24_RefusedFlushWritesNothing ==
  \A s \in SaveSlots : \A b \in BytesSamples \cup {Unreadable} :
    (/\ saves[s].pc = "guard"
     /\ (b = Unreadable \/ (b * 100) \div STORAGE_QUOTA_BYTES >= STORAGE_LOG_THRESHOLD))
      => LET m == saveCacheGuard(Cur, s, b, now)
         IN  /\ m.saves[s].pc = "refused"
             /\ m.saves[s].cacheObj = NoCacheObj
             /\ m.storage = storage
             /\ m.locationCache = locationCache
             /\ m.locationStats = locationStats
             /\ \A b2 \in BytesSamples \cup {Unreadable} :
                  LET m2 == saveCacheUsage(m, s, b2)
                  IN  /\ m2.saves[s] = NoSave
                      /\ m2.storage = storage
                      /\ m2.locationCache = locationCache
                      /\ m2.locationStats = locationStats
                      /\ s = "debounce" => m2.saveCacheTimeout = 0

\* C24 witness: a flush was refused while the cache holds an entry that
\* storage does not hold.
C24_Witness ==
  \E s \in SaveSlots :
    /\ saves[s].pc = "refused"
    /\ \E k \in Keys : CacheHas(Cur, k) /\ storage.cache[k] = NoEntry

\* C25: at most one debounce timer is pending at any time; a step taken
\* while one is pending arms no other one (the mutations made in the
\* meantime share its flush), and none is pending while the flush it
\* triggered is running.
C25_OneDebounceTimer ==
  [][/\ Cardinality(debounceTimers') <= 1
     /\ debounceTimers # {} => debounceTimers' \subseteq debounceTimers
     /\ debounceTimers' # {} => saves'["debounce"].pc = "idle"]_vars

\* C25 witness: two mutations were made while one debounce timer is pending.
C25_Witness ==
  /\ debounceTimers = {saveCacheTimeout}
  /\ \E j, k \in Keys :
       /\ CacheHas(Cur, j) /\ CacheHas(Cur, k)
       /\ locationCache[j].cachedAt + CACHE_SAVE_INTERVAL = saveCacheTimeout
       /\ locationCache[j].cachedAt < locationCache[k].cachedAt
       /\ locationCache[k].cachedAt < saveCacheTimeout

Unsaved(k) ==
  /\ CacheHas(Cur, k)
  /\ \/ storage.cache[k].location # locationCache[k].location
     \/ storage.cache[k].expiry # locationCache[k].expiry

\* C26: with fair timers and a storage that is available and under quota,
\* every cache mutation is written by a flush sooner or later, also one made
\* while a debounced saveCache is running after it took its snapshot: from
\* a state in which some entry is not in storage, a state is reached in which
\* storage holds every entry of the cache.
C26_EveryMutationIsFlushed ==
  (\E k \in KeysStore : Unsaved(k)) ~> (\A k \in KeysStore : ~Unsaved(k))

\* C26 witness: the debounced saveCache has handed its snapshot to storage,
\* an entry was put into the cache after that, and no debounce timer is
\* pending.
C26_Witness ==
  /\ saves["debounce"].pc = "write"
  /\ debounceTimers = {}
  /\ \E k \in KeysStore :
       /\ CacheHas(Cur, k)
       /\ saves["debounce"].cacheObj[k] = NoEntry
       /\ Unsaved(k)

\* C31: a request that ends with an answer flagged as throttled, or by its
\* timeout, leaves consecutiveRateLimits as it is.
C31_OnlyCleanAnswerResets ==
  /\ (inflight # NoTask /\ inflight.id \in remote)
       => \A v \in Locations \cup {Null} :
            locationResponse(Cur, v, TRUE, now).consecutiveRateLimits
              = consecutiveRateLimits
  /\ \A tm \in timeoutTimers :
       (tm.at <= now /\ inflight.id = tm.id)
         => requestTimeout(Cur, tm, now).consecutiveRateLimits
              = consecutiveRateLimits

\* C33: for every non-throttled answer to the request in flight,
\* saveCacheEntry stores {value, expiry, cachedAt: now} for the key, over any
\* prior entry, whatever the state of the extension context is.
C33_EntryStoredWithoutStorage ==
  (inflight # NoTask /\ inflight.id \in remote)
    => \A v \in Locations \cup {Null} :
         saveCacheEntry(Cur, inflight.screenName, v, now)
             .locationCache[inflight.screenName]
           = [location |-> v, expiry |-> calculateExpiry(v, now),
              cachedAt |-> now]

\* C36: a caller that waited on the pending promise of k returns, when a
\* handler resolves that promise, the value of the unexpired cache entry of k
\* if there is one at that moment, and what the promise resolved with
\* otherwise.
C36_WaiterReadsCacheFirst ==
  LET Woken(m) ==
        \A st \in m.settled :
          (st.state = "resolved" /\ st.waiting > 0)
            => LET entry == m.locationCache[st.screenName]
               IN  st.waiter = IF entry # NoEntry /\ entry.expiry # 0
                                   /\ entry.expiry > now
                                THEN entry.location ELSE st.owner
  IN  /\ (inflight # NoTask /\ inflight.id \in remote)
           => \A v \in Locations \cup {Null}, r \in BOOLEAN :
                Woken(locationResponse(Cur, v, r, now))
      /\ \A tm \in timeoutTimers :
           tm.at <= now => Woken(requestTimeout(Cur, tm, now))

\* C36 witness: a caller waits on the promise of the request in flight, whose
\* timeout is due, while the cache holds an unexpired entry for the key: the
\* promise resolves with null and the waiter returns the cached value.
C36_Witness ==
  /\ inflight # NoTask
  /\ waiters[inflight.id] > 0
  /\ Cached(inflight.screenName)
  /\ \E tm \in timeoutTimers : tm.id = inflight.id /\ tm.at <= now

\* C37: the timeout timer of a request that is no longer in flight does not
\* remove the pendingLocationRequests registration of a newer, unsettled task
\* of the same key when it fires.
C37_StaleTimerHarmless ==
  \A tm \in timeoutTimers :
    LET p == pendingLocationRequests[tm.screenName]
    IN  (/\ tm.at <= now /\ inflight.id # tm.id
         /\ p # 0 /\ p # tm.id /\ promises[p].state = "pending")
          => requestTimeout(Cur, tm, now)
               .pendingLocationRequests[tm.screenName] = p

\* C38: one drain loop at most: isProcessingQueue is set exactly while the
\* loop is suspended at its pacing timer or at its request; the loop
\* suspended at the pacing timer finds the queue non-empty; and while a drain
\* is running the queue only shrinks by the loop taking its head.
C38_SingleDrainLoop ==
  [][/\ isProcessingQueue <=> drainPc # "idle"
     /\ drainPc = "pacing" => requestQueue # << >> /\ inflight = NoTask
     /\ drainPc = "request" => inflight # NoTask /\ activeRequests = 1
     /\ (isProcessingQueue /\ Len(requestQueue') < Len(requestQueue))
          => /\ requestQueue' = Tail(requestQueue)
             /\ inflight' = Head(requestQueue)
             /\ inflight'.id \in remote']_vars

\* C38 witness: the loop is suspended at its pacing timer inside the
\* rate-limit window, with a task queued.
C38_Witness ==
  /\ drainPc = "pacing"
  /\ isRateLimited(Cur, now)
  /\ requestQueue # << >>

\* C32: a getLocation call that starts the drain after the rate-limit window
\* has lapsed (rateLimitResetTime > 0, now >= rateLimitResetTime, no drain
\* running) leaves rateLimitResetTime = 0 and consecutiveRateLimits = 0, and
\* its task is dispatched, or waits for the pacing timer, under these values.
C32_LapsedWindowIsCleared ==
  \A k \in Keys :
    (/\ rateLimitResetTime > 0 /\ (now \div 10) >= rateLimitResetTime
     /\ ~isProcessingQueue
     /\ ~Cached(k) /\ pendingLocationRequests[k] = 0
     /\ Len(requestQueue) < queueCapacity /\ nextId <= LiveTasks)
      => LET m == getLocation(Cur, k, now)
         IN  /\ m.rateLimitResetTime = 0
             /\ m.consecutiveRateLimits = 0
             /\ m.ret.kind = "queued"
             /\ m.isProcessingQueue
             /\ \/ m.drainPc = "pacing" /\ m.sent = {}
                \/ m.drainPc = "request" /\ m.inflight.screenName = k

\* C32 witness: a signal came after the timeout of its request, the window
\* has lapsed, and the next call started a drain that cleared it and sent its
\* task.
C32_Witness ==
  /\ signals > 0
  /\ rateLimitResetTime = 0
  /\ consecutiveRateLimits = 0
  /\ inflight # NoTask
  /\ lastRequestTime = now

\* C35: the cacheObj and the statsObj of one saveCache call are built from
\* the memory of one step: the step that takes the snapshot changes neither
\* locationCache nor locationStats, the snapshot holds the entries of that
\* cache and, for every value, the size of its key set in that aggregator;
\* later mutations do not reach the snapshot, and what lands in storage is the
\* pair of one snapshot.
C35_SnapshotOfOneState ==
  [][/\ \A s \in SaveSlots :
          /\ (saves[s].pc = "guard" /\ saves'[s].pc = "write")
               => /\ locationCache' = locationCache
                  /\ locationStats' = locationStats
                  /\ \A k \in Keys :
                       /\ saves'[s].cacheObj[k] = NoEntry
                            <=> locationCache[k] = NoEntry
                       /\ saves'[s].cacheObj[k].location
                            = locationCache[k].location
                       /\ saves'[s].cacheObj[k].expiry
                            = locationCache[k].expiry
                  /\ \A l \in Locations :
                       saves'[s].statsObj[l] = Cardinality(locationStats[l])
          /\ (saves[s].pc = "write" /\ saves'[s].pc = "write")
               => /\ saves'[s].cacheObj = saves[s].cacheObj
                  /\ saves'[s].statsObj = saves[s].statsObj
     /\ storage' # storage
          => \E s \in SaveSlots :
               /\ saves[s].pc = "write"
               /\ storage' = [cache |-> saves[s].cacheObj,
                              stats |-> saves[s].statsObj]]_vars

\* C35 witness: a snapshot is on its way to storage and the aggregator has
\* grown since it was taken.
C35_Witness ==
  \E s \in SaveSlots :
    /\ saves[s].pc = "write"
    /\ \E l \in Locations :
         saves[s].statsObj[l] < Cardinality(locationStats[l])

\* C39: persist/load round trip.  The records saveCache builds now, loaded by
\* the loadCache of a new content script at t, give for every entry that is
\* unexpired at t an entry with the same value and the same expiry; no loaded
\* entry expires later than the entry it was saved from.
C39_RoundTrip ==
  \A t \in {now} \cup {locationCache[j].expiry - 1 : j \in Keys}
             \cup {locationCache[j].expiry : j \in Keys} :
    t >= now
      => LET stored == [Cur EXCEPT
                         !.storage = [cache |-> CacheObj(Cur, now),
                                      stats |-> StatsObj(Cur)],
                         !.locationCache = [k \in Keys |-> NoEntry],
                         !.locationStats = [l \in Locations |-> {}],
                         !.contextValid = TRUE]
             loaded == loadCache(stored, t).locationCache
         IN  \A k \in Keys :
               /\ (CacheHas(Cur, k) /\ locationCache[k].expiry > t)
                    => /\ loaded[k].location = locationCache[k].location
                       /\ loaded[k].expiry = locationCache[k].expiry
               /\ loaded[k] # NoEntry
                    => /\ CacheHas(Cur, k)
                       /\ loaded[k].expiry <= locationCache[k].expiry

\* C39 witness: after a reload, some time after the entry was created, the
\* cache holds a loaded entry with the value and the expiry of its record.
C39_Witness ==
  /\ restarts = 1
  /\ \E k \in Keys :
       /\ CacheHas(Cur, k)
       /\ locationCache[k].cachedAt = 0
       /\ locationCache[k].location = storage.cache[k].location
       /\ locationCache[k].expiry = storage.cache[k].expiry
       /\ storage.cache[k].cachedAt < now

\* What a failed storage operation has to leave alone: the cache, the
\* aggregator and the state of the queue.
C34_Frame(m) ==
  /\ m.locationCache = locationCache
  /\ m.locationStats = locationStats
  /\ m.requestQueue = requestQueue
  /\ m.isProcessingQueue = isProcessingQueue
  /\ m.pendingLocationRequests = pendingLocationRequests
  /\ m.promises = promises
  /\ m.inflight = inflight
  /\ m.activeRequests = activeRequests

\* C34: once the extension context is invalidated, every step of a load or
\* of a flush ends its operation and leaves the cache, the aggregator and the
\* queue as they are; a getLocation call behaves as it does with a valid
\* context, and the answer to the request in flight still reaches its caller.
C34_ContextLossAbsorbed ==
  ~contextValid
    => /\ C34_Frame(loadCache(Cur, now))
       /\ \A s \in SaveSlots :
            /\ saves[s].pc = "idle"
                 => LET m == saveCacheBegin(Cur, s)
                    IN  /\ C34_Frame(m) /\ m.saves[s] = NoSave
                        /\ m.storage = storage
            /\ saves[s].pc = "guard"
                 => \A b \in BytesSamples \cup {Unreadable} :
                      LET m == saveCacheGuard(Cur, s, b, now)
                      IN  /\ C34_Frame(m) /\ m.saves[s] = NoSave
                          /\ m.storage = storage
            /\ saves[s].pc = "write"
                 => \A landed \in BOOLEAN :
                      LET m == saveCacheWritten(Cur, s, landed)
                      IN  C34_Frame(m) /\ m.saves[s] = NoSave
            /\ saves[s].pc \in {"usage", "refused"}
                 => \A b \in BytesSamples \cup {Unreadable} :
                      LET m == saveCacheUsage(Cur, s, b)
                      IN  /\ C34_Frame(m) /\ m.saves[s] = NoSave
                          /\ m.storage = storage
       /\ \A k \in Keys :
            CallAllowed(k)
              => LET lost == getLocation(Cur, k, now)
                     kept == getLocation([Cur EXCEPT !.contextValid = TRUE],
                                         k, now)
                 IN  /\ lost.ret = kept.ret
                     /\ lost.sent = kept.sent
                     /\ lost.settled = kept.settled
                     /\ lost.requestQueue = kept.requestQueue
                     /\ lost.pendingLocationRequests
                          = kept.pendingLocationRequests
       /\ (inflight # NoTask /\ inflight.id \in remote)
            => \A v \in Locations \cup {Null} :
                 \E st \in locationResponse(Cur, v, FALSE, now).settled :
                   /\ st.id = inflight.id /\ st.state = "resolved"
                   /\ st.owner = v

\* C34 witness: a content script started without its extension context over
\* a storage that holds an unexpired entry, its load was skipped, and a
\* request of a later getLocation call is in flight.
C34_Witness ==
  /\ ~contextValid
  /\ restarts = 1
  /\ \E k \in Keys :
       /\ storage.cache[k] # NoEntry /\ storage.cache[k].expiry > now
       /\ locationCache[k] = NoEntry
  /\ inflight # NoTask

====
